---- MODULE Spec2Model ----
(***************************************************************************)
(* A model of excel_duplicates.py: find_duplicate_rows (the exact-pair     *)
(* duplicate finder) and detect_duplicate_scenarios (the six-scenario      *)
(* classifier).  One call is modelled per behaviour: Init fixes the input  *)
(* file and the call's arguments, the actions are the statements of the    *)
(* called function in program order.                                       *)
(*                                                                         *)
(* Text is modelled as a sequence of atoms (one-character strings for the  *)
(* cells of the input, whole labels for the note texts), so that strip()   *)
(* and join() are computed and not assumed.  The column names and labels   *)
(* of the source are Chinese; they are written here in ASCII.              *)
(***************************************************************************)
EXTENDS Naturals, Sequences, FiniteSets

VARIABLES
    op,              \* which function is called: "find" or "detect"
    args,            \* the call's arguments
    file,            \* the input file: <<>> if input_path is no file, else <<table>>
    pc,              \* position in the called function
    df,              \* local df: <<>> while unbound, else <<table>>
    scenario_flags,  \* local scenario_flags (detect): one bitmask per row
    note_cache,      \* local note_cache (detect): bitmask -> note text
    full_df,         \* local full_df (detect): <<>> while unbound
    duplicates_df,   \* local duplicates_df (detect): <<>> while unbound
    dup_df,          \* local dup_df (find): <<>> while unbound
    stores,          \* the to_excel calls made so far: <<[path, table]>>
    ret,             \* the returned tables: <<>> until the call returns
    err              \* the raised exception: <<>> unless the call raised

vars == << op, args, file, pc, df, scenario_flags, note_cache, full_df,
           duplicates_df, dup_df, stores, ret, err >>

-----------------------------------------------------------------------------
(* Bounds of the model *)

MaxRows == 3
MaxNormRows == 2
MaxCfgRows == 2
MaxFindRows == 3

-----------------------------------------------------------------------------
(* Cells and text *)

NaN == [kind |-> "nan", s |-> <<>>]
Str(t) == [kind |-> "str", s |-> t]
Num(t) == [kind |-> "num", s |-> t]

Digits == <<"0", "1", "2", "3", "4", "5", "6", "7", "8", "9">>

IsSpace(a) == a = " "

RECURSIVE lstrip(_)
lstrip(t) == IF t # <<>> /\ IsSpace(Head(t)) THEN lstrip(Tail(t)) ELSE t

RECURSIVE rstrip(_)
rstrip(t) ==
    IF t # <<>> /\ IsSpace(t[Len(t)]) THEN rstrip(SubSeq(t, 1, Len(t) - 1)) ELSE t

strip(t) == rstrip(lstrip(t))

fillna(c) == IF c.kind = "nan" THEN Str(<<>>) ELSE c

\* astype(str): a number becomes its decimal text, text stays as it is
astype_str(c) == Str(c.s)

\* df[col].fillna("").astype(str).str.strip() on one cell
\* (variant: strip() left out)
NormalizeNoStrip(c) == astype_str(fillna(c))
Normalize(c) == Str(strip(astype_str(fillna(c)).s))

-----------------------------------------------------------------------------
(* Tables: pandas DataFrames with ordered columns, an index and rows *)

Range(f) == {f[i] : i \in DOMAIN f}

NewTable(cols, data) ==
    [cols |-> cols, index |-> [i \in 1..Len(data) |-> i - 1], data |-> data]

NRows(t) == Len(t.data)

HasCol(t, c) == c \in Range(t.cols)

\* df[c] = values : overwrites column c in place if present, else appends it
SetCol(t, c, values) ==
    [cols  |-> IF HasCol(t, c) THEN t.cols ELSE Append(t.cols, c),
     index |-> t.index,
     data  |-> [i \in 1..NRows(t) |->
                  [x \in Range(t.cols) \cup {c} |->
                      IF x = c THEN values[i] ELSE t.data[i][x]]]]

RECURSIVE SelectSeq2(_, _)
SelectSeq2(s, keep) ==
    IF s = <<>> THEN <<>>
    ELSE IF Head(s) \in keep THEN <<Head(s)>> \o SelectSeq2(Tail(s), keep)
    ELSE SelectSeq2(Tail(s), keep)

\* df.drop(columns=names, errors="ignore")
DropCols(t, names) ==
    LET kept == SelectSeq2(t.cols, Range(t.cols) \ names)
    IN [cols  |-> kept,
        index |-> t.index,
        data  |-> [i \in 1..NRows(t) |-> [x \in Range(kept) |-> t.data[i][x]]]]

\* the positions of s, in order, that are in the set keep
RECURSIVE Positions(_, _, _)
Positions(n, k, keep) ==
    IF k > n THEN <<>>
    ELSE IF k \in keep THEN <<k>> \o Positions(n, k + 1, keep)
    ELSE Positions(n, k + 1, keep)

\* df[mask] : the rows whose mask is true, in order, keeping their index labels
Filter(t, mask) ==
    LET pos == Positions(NRows(t), 1, {i \in 1..NRows(t) : mask[i]})
    IN [cols  |-> t.cols,
        index |-> [k \in 1..Len(pos) |-> t.index[pos[k]]],
        data  |-> [k \in 1..Len(pos) |-> t.data[pos[k]]]]

-----------------------------------------------------------------------------
(* Names fixed by the source (ASCII for the Chinese defaults) *)

country_col == "country"
company_col == "company"
website_col == "website"
name_col == "name"
link_col == "link"

NO_DUPLICATE == <<"NO_DUP">>

scenario_descriptions ==
    [n \in 1..6 |->
        CASE n = 1 -> <<"ALL_SAME">>
          [] n = 2 -> <<"COUNTRY_NAME_SAME_SITE_DIFF">>
          [] n = 3 -> <<"COUNTRY_SITE_SAME_NAME_DIFF">>
          [] n = 4 -> <<"COUNTRY_DIFF_NAME_SITE_SAME">>
          [] n = 5 -> <<"COUNTRY_SITE_DIFF_NAME_SAME">>
          [] n = 6 -> <<"COUNTRY_NAME_DIFF_SITE_SAME">>]

scenario_bits == <<1, 2, 4, 8, 16, 32>>
scenario_nums == <<1, 2, 3, 4, 5, 6>>

temp_cols ==
    << "_country_norm", "_company_norm", "_website_norm",
       "_size_1", "_size_2", "_website_nunique_2", "_size_3", "_company_nunique_3",
       "_size_4", "_country_nunique_4", "_size_5", "_country_nunique_5",
       "_website_nunique_5", "_size_6", "_country_nunique_6", "_company_nunique_6" >>

-----------------------------------------------------------------------------
(* detect_duplicate_scenarios: normalisation, grouping, bitmask *)

IntCell(n) == [kind |-> "int", s |-> <<>>, n |-> n]

\* the rows of the group of row i under df.groupby(keys, dropna=False, sort=False)
GroupOf(t, keys, i) ==
    {j \in 1..NRows(t) : \A k \in Range(keys) : t.data[j][k] = t.data[i][k]}

\* grouped[col].transform("size")
transform_size(t, keys) ==
    [i \in 1..NRows(t) |-> IntCell(Cardinality(GroupOf(t, keys, i)))]

\* grouped[col].transform("nunique") : distinct non-NaN values of col in the group
transform_nunique(t, keys, col) ==
    [i \in 1..NRows(t) |->
        IntCell(Cardinality({t.data[j][col] : j \in GroupOf(t, keys, i)}
                              \ {NaN}))]

\* (condition).astype(np.int32) * bit
Bit(b, bit) == IF b THEN bit ELSE 0

Gt1(t, col, i) == t.data[i][col].n > 1

\* lines 204-206
WithNormColumns(t) ==
    LET a == SetCol(t, "_country_norm",
                    [i \in 1..NRows(t) |-> Normalize(t.data[i][country_col])])
        b == SetCol(a, "_company_norm",
                    [i \in 1..NRows(t) |-> Normalize(a.data[i][company_col])])
    IN SetCol(b, "_website_norm",
              [i \in 1..NRows(t) |-> Normalize(b.data[i][website_col])])

\* lines 212-218
Scenario1(t) ==
    LET keys == <<"_country_norm", "_company_norm", "_website_norm">>
        a == SetCol(t, "_size_1", transform_size(t, keys))
    IN [df |-> a, flags |-> [i \in 1..NRows(t) |-> Bit(Gt1(a, "_size_1", i), 1)]]

\* lines 220-225
Scenario2(t) ==
    LET keys == <<"_country_norm", "_company_norm">>
        a == SetCol(t, "_size_2", transform_size(t, keys))
        b == SetCol(a, "_website_nunique_2", transform_nunique(a, keys, "_website_norm"))
    IN [df |-> b,
        flags |-> [i \in 1..NRows(t) |->
            Bit(Gt1(b, "_size_2", i) /\ Gt1(b, "_website_nunique_2", i), 2)]]

\* lines 227-232
Scenario3(t) ==
    LET keys == <<"_country_norm", "_website_norm">>
        a == SetCol(t, "_size_3", transform_size(t, keys))
        b == SetCol(a, "_company_nunique_3", transform_nunique(a, keys, "_company_norm"))
    IN [df |-> b,
        flags |-> [i \in 1..NRows(t) |->
            Bit(Gt1(b, "_size_3", i) /\ Gt1(b, "_company_nunique_3", i), 4)]]

\* lines 234-239
Scenario4(t) ==
    LET keys == <<"_company_norm", "_website_norm">>
        a == SetCol(t, "_size_4", transform_size(t, keys))
        b == SetCol(a, "_country_nunique_4", transform_nunique(a, keys, "_country_norm"))
    IN [df |-> b,
        flags |-> [i \in 1..NRows(t) |->
            Bit(Gt1(b, "_size_4", i) /\ Gt1(b, "_country_nunique_4", i), 8)]]

\* lines 241-247
Scenario5(t) ==
    LET keys == <<"_company_norm">>
        a == SetCol(t, "_size_5", transform_size(t, keys))
        b == SetCol(a, "_country_nunique_5", transform_nunique(a, keys, "_country_norm"))
        c == SetCol(b, "_website_nunique_5", transform_nunique(b, keys, "_website_norm"))
    IN [df |-> c,
        flags |-> [i \in 1..NRows(t) |->
            Bit(Gt1(c, "_size_5", i) /\ Gt1(c, "_country_nunique_5", i)
                    /\ Gt1(c, "_website_nunique_5", i), 16)]]

\* lines 249-255
\* (variant: a group of two does not count)
Scenario6Strict(t) ==
    LET keys == <<"_website_norm">>
        a == SetCol(t, "_size_6", transform_size(t, keys))
        b == SetCol(a, "_country_nunique_6", transform_nunique(a, keys, "_country_norm"))
        c == SetCol(b, "_company_nunique_6", transform_nunique(b, keys, "_company_norm"))
    IN [df |-> c,
        flags |-> [i \in 1..NRows(t) |->
            Bit(c.data[i]["_size_6"].n > 2 /\ Gt1(c, "_country_nunique_6", i)
                    /\ Gt1(c, "_company_nunique_6", i), 32)]]
Scenario6(t) ==
    LET keys == <<"_website_norm">>
        a == SetCol(t, "_size_6", transform_size(t, keys))
        b == SetCol(a, "_country_nunique_6", transform_nunique(a, keys, "_country_norm"))
        c == SetCol(b, "_company_nunique_6", transform_nunique(b, keys, "_company_norm"))
    IN [df |-> c,
        flags |-> [i \in 1..NRows(t) |->
            Bit(Gt1(c, "_size_6", i) /\ Gt1(c, "_country_nunique_6", i)
                    /\ Gt1(c, "_company_nunique_6", i), 32)]]

\* lines 202-264: the bitmask of every row, and df with the temporary columns dropped.
\* The six bits are distinct, so the |= of the source is a sum.
ComputeFlags(t) ==
    LET n  == WithNormColumns(t)
        r1 == Scenario1(n)
        r2 == Scenario2(r1.df)
        r3 == Scenario3(r2.df)
        r4 == Scenario4(r3.df)
        r5 == Scenario5(r4.df)
        r6 == Scenario6(r5.df)
    IN [df    |-> DropCols(r6.df, Range(temp_cols)),
        flags |-> [i \in 1..NRows(t) |->
                      r1.flags[i] + r2.flags[i] + r3.flags[i]
                          + r4.flags[i] + r5.flags[i] + r6.flags[i]]]

-----------------------------------------------------------------------------
(* detect_duplicate_scenarios: bitmask -> note text *)

RECURSIVE join(_, _)
join(sep, texts) ==
    IF texts = <<>> THEN <<>>
    ELSE IF Len(texts) = 1 THEN texts[1]
    ELSE texts[1] \o sep \o join(sep, Tail(texts))

RECURSIVE insert_sorted(_, _)
insert_sorted(x, s) ==
    IF s = <<>> THEN <<x>>
    ELSE IF x <= Head(s) THEN <<x>> \o s
    ELSE <<Head(s)>> \o insert_sorted(x, Tail(s))

RECURSIVE np_sort(_)
np_sort(s) == IF s = <<>> THEN <<>> ELSE insert_sorted(Head(s), np_sort(Tail(s)))

\* scenario_bits & flag != 0, at position k
BitSet(flag, k) == (flag \div scenario_bits[k]) % 2 = 1

\* scenario_nums[scenario_bits & flag != 0]
RECURSIVE matched_from(_, _)
matched_from(flag, k) ==
    IF k > Len(scenario_nums) THEN <<>>
    ELSE IF BitSet(flag, k) THEN <<scenario_nums[k]>> \o matched_from(flag, k + 1)
    ELSE matched_from(flag, k + 1)

\* lines 275-289: the cache after flags_to_note(flag)
\* (variant: only the first matched label is rendered)
flags_to_note_first_only(cache, flag, sep) ==
    IF flag \in DOMAIN cache \/ flag = 0 THEN cache
    ELSE LET matched == matched_from(flag, 1)
         IN IF Len(matched) > 0
            THEN [f \in DOMAIN cache \cup {flag} |->
                    IF f = flag THEN scenario_descriptions[matched[1]] ELSE cache[f]]
            ELSE cache
flags_to_note(cache, flag, sep) ==
    IF flag \in DOMAIN cache THEN cache
    ELSE IF flag = 0 THEN cache
    ELSE LET matched == matched_from(flag, 1)
         IN IF Len(matched) > 0
            THEN LET matched_sorted == np_sort(matched)
                     note_text ==
                         join(sep, [k \in 1..Len(matched_sorted) |->
                                       scenario_descriptions[matched_sorted[k]]])
                 IN [f \in DOMAIN cache \cup {flag} |->
                        IF f = flag THEN note_text ELSE cache[f]]
            ELSE cache

Min(S) == CHOOSE x \in S : \A y \in S : x <= y

\* lines 293-296: flags_to_note over np.unique(scenario_flags), ascending
RECURSIVE fill_cache(_, _, _)
fill_cache(cache, unique_flags, sep) ==
    IF unique_flags = {} THEN cache
    ELSE LET flag == Min(unique_flags)
         IN fill_cache(IF flag \notin DOMAIN cache
                       THEN flags_to_note(cache, flag, sep) ELSE cache,
                       unique_flags \ {flag}, sep)

\* lines 272-296
BuildNoteCache(flags, sep) ==
    fill_cache([f \in {0} |-> NO_DUPLICATE], Range(flags), sep)

\* line 299: pd.Series(scenario_flags).map(note_cache); a missing key maps to NaN
MapNotes(flags, cache) ==
    [i \in 1..Len(flags) |->
        IF flags[i] \in DOMAIN cache THEN Str(cache[flags[i]]) ELSE NaN]

-----------------------------------------------------------------------------
(* find_duplicate_rows: the duplicate mask *)

\* line 96: df.duplicated(subset=[name_col, link_col], keep=False)
\* (variant: compares trimmed values)
duplicated_normalized(t) ==
    [i \in 1..NRows(t) |->
        \E j \in 1..NRows(t) :
            /\ j # i
            /\ Normalize(t.data[j][name_col]) = Normalize(t.data[i][name_col])
            /\ Normalize(t.data[j][link_col]) = Normalize(t.data[i][link_col])]
duplicated(t) ==
    [i \in 1..NRows(t) |->
        \E j \in 1..NRows(t) :
            /\ j # i
            /\ t.data[j][name_col] = t.data[i][name_col]
            /\ t.data[j][link_col] = t.data[i][link_col]]

-----------------------------------------------------------------------------
(* pd.read_excel and the errors *)

Error(kind, at, missing, header) ==
    [kind |-> kind, at |-> at, missing |-> missing, header |-> header]

\* line 83: [name_col, link_col, *extra_columns]; <<>> stands for usecols = None
Usecols(extra_columns) ==
    IF extra_columns = <<>> THEN <<>>
    ELSE <<name_col, link_col>> \o extra_columns[1]

\* line 86: pd.read_excel(usecols=...) keeps the listed columns in the file's order
ReadExcel(t, usecols) ==
    IF usecols = <<>> THEN t ELSE DropCols(t, Range(t.cols) \ Range(usecols))

\* pd.read_excel rejects a usecols name that is not in the header
UsecolsNotFound(t, usecols) == SelectSeq2(usecols, Range(usecols) \ Range(t.cols))

\* lines 88 and 185: the required columns that are not in df.columns, in order
\* (variant: stops at the first missing column)
MissingColsFirst(required, t) ==
    LET m == SelectSeq2(required, Range(required) \ Range(t.cols))
    IN IF m = <<>> THEN m ELSE <<m[1]>>
MissingCols(required, t) == SelectSeq2(required, Range(required) \ Range(t.cols))

Store(path, t) == [path |-> path, table |-> t]

-----------------------------------------------------------------------------
(* The inputs: files and arguments *)

\* a file of the given header; the key columns hold the generated cells, every
\* other column holds the row's number as text
MakeTable(header, keyrows) ==
    NewTable(header,
             [i \in 1..Len(keyrows) |->
                 [c \in Range(header) |->
                     IF c \in DOMAIN keyrows[i] THEN keyrows[i][c]
                     ELSE Str(<<Digits[i + 1]>>)]])

\* dom gives the cells of each key column
KeyRows(header, dom) ==
    LET keys == DOMAIN dom \cap Range(header)
    IN {r \in [keys -> UNION {dom[c] : c \in keys}] : \A c \in keys : r[c] \in dom[c]}

TablesOver(header, dom, maxrows) ==
    {MakeTable(header, rs) : rs \in UNION {[1..n -> KeyRows(header, dom)] : n \in 0..maxrows}}

DetectKeys == {country_col, company_col, website_col}
FindKeys == {name_col, link_col}

PlainCells == {Str(<<"a">>), Str(<<"b">>)}
PlainDetect == [c \in DetectKeys |-> PlainCells]
PlainFind == [c \in FindKeys |-> PlainCells]

\* missing cells, numbers, and text that differs only in surrounding blanks
NormDetect ==
    [c \in DetectKeys |->
        CASE c = country_col -> {NaN, Str(<<"1">>), Num(<<"1">>)}
          [] c = company_col -> {NaN, Str(<<"a">>), Str(<<" ", "a", " ">>)}
          [] c = website_col -> {NaN, Str(<<"a", " ">>)}]

\* raw cells that differ only by a trailing blank
RawFind ==
    [c \in FindKeys |->
        CASE c = name_col -> {NaN, Str(<<"a">>), Str(<<"a", " ">>)}
          [] c = link_col -> {Str(<<"a">>), Str(<<"a", " ">>)}]

DetectHeader == <<country_col, company_col, website_col, "other">>
DetectHeaders ==
    { DetectHeader,
      <<country_col, company_col, "other">>,
      <<"other", website_col>>,
      <<"other">>,
      <<country_col, "_size_1", company_col, website_col>>,
      <<"_country_norm", website_col, company_col, country_col>> }
NoteCols == {"note", "other"}
Separators == {<<";">>, <<",", " ">>}

FindHeader == <<name_col, link_col, "email">>
FindHeaders ==
    { FindHeader,
      <<"email", link_col, name_col, "country">>,
      <<name_col, "email">>,
      <<"email">> }
ExtraColumns == { <<>>, << <<"email">> >>, << <<"email", "country">> >>, << <<>> >> }

DetectArgs(note, sep) ==
    [note_col |-> note, scenario_separator |-> sep,
     extra_columns |-> <<>>, write_empty |-> TRUE]

FindArgs(extra, we) ==
    [note_col |-> "note", scenario_separator |-> <<";">>,
     extra_columns |-> extra, write_empty |-> we]

Locals ==
    /\ pc = "start"
    /\ df = <<>>
    /\ scenario_flags = <<>>
    /\ note_cache = <<>>
    /\ full_df = <<>>
    /\ duplicates_df = <<>>
    /\ dup_df = <<>>
    /\ stores = <<>>
    /\ ret = <<>>
    /\ err = <<>>

\* detect_duplicate_scenarios on files of the default header
InitDetect ==
    /\ op = "detect"
    /\ \E sep \in Separators : args = DetectArgs("note", sep)
    /\ \E t \in TablesOver(DetectHeader, PlainDetect, MaxRows) : file = <<t>>

\* detect_duplicate_scenarios on missing cells, numbers and untrimmed text
InitDetectNorm ==
    /\ op = "detect"
    /\ args = DetectArgs("note", <<";">>)
    /\ \E t \in TablesOver(DetectHeader, NormDetect, MaxNormRows) : file = <<t>>

\* detect_duplicate_scenarios on other headers, note columns and missing files
InitDetectCfg ==
    /\ op = "detect"
    /\ \E note \in NoteCols, sep \in Separators : args = DetectArgs(note, sep)
    /\ \/ file = <<>>
       \/ \E h \in DetectHeaders :
            \E t \in TablesOver(h, PlainDetect, MaxCfgRows) : file = <<t>>

\* find_duplicate_rows on files of the default header
InitFind ==
    /\ op = "find"
    /\ \E we \in BOOLEAN, extra \in {<<>>, << <<"email">> >>} : args = FindArgs(extra, we)
    /\ \E t \in TablesOver(FindHeader, RawFind, MaxFindRows) : file = <<t>>

\* find_duplicate_rows on other headers, extra columns and missing files
InitFindCfg ==
    /\ op = "find"
    /\ \E we \in BOOLEAN, extra \in ExtraColumns : args = FindArgs(extra, we)
    /\ \/ file = <<>>
       \/ \E h \in FindHeaders :
            \E t \in TablesOver(h, PlainFind, MaxCfgRows) : file = <<t>>

Init == Locals /\ (InitDetect \/ InitDetectNorm \/ InitDetectCfg \/ InitFind \/ InitFindCfg)

-----------------------------------------------------------------------------
(* detect_duplicate_scenarios *)

Raise(e) ==
    /\ pc' = "raised"
    /\ err' = <<e>>

\* lines 177-178
DetectCheckInput ==
    /\ op = "detect" /\ pc = "start"
    /\ IF file = <<>>
       THEN Raise(Error("FileNotFoundError", "is_file", <<>>, <<>>))
       ELSE pc' = "load" /\ UNCHANGED err
    /\ UNCHANGED << op, args, file, df, scenario_flags, note_cache, full_df,
                    duplicates_df, dup_df, stores, ret >>

\* line 181
DetectLoad ==
    /\ op = "detect" /\ pc = "load"
    /\ df' = <<file[1]>>
    /\ pc' = "validate"
    /\ UNCHANGED << op, args, file, scenario_flags, note_cache, full_df,
                    duplicates_df, dup_df, stores, ret, err >>

\* lines 184-190
DetectValidate ==
    /\ op = "detect" /\ pc = "validate"
    /\ LET required_cols == <<country_col, company_col, website_col>>
           missing_cols == MissingCols(required_cols, df[1])
       IN IF missing_cols # <<>>
          THEN Raise(Error("ValueError", "missing_cols", missing_cols, df[1].cols))
          ELSE pc' = "classify" /\ UNCHANGED err
    /\ UNCHANGED << op, args, file, df, scenario_flags, note_cache, full_df,
                    duplicates_df, dup_df, stores, ret >>

\* lines 202-264
DetectClassify ==
    /\ op = "detect" /\ pc = "classify"
    /\ LET r == ComputeFlags(df[1])
       IN /\ df' = <<r.df>>
          /\ scenario_flags' = r.flags
    /\ pc' = "notes"
    /\ UNCHANGED << op, args, file, note_cache, full_df, duplicates_df, dup_df,
                    stores, ret, err >>

\* lines 266-302
DetectNotes ==
    /\ op = "detect" /\ pc = "notes"
    /\ LET cache == BuildNoteCache(scenario_flags, args.scenario_separator)
           notes == MapNotes(scenario_flags, cache)
       IN /\ note_cache' = cache
          /\ df' = <<SetCol(df[1], args.note_col, notes)>>
    /\ pc' = "split"
    /\ UNCHANGED << op, args, file, scenario_flags, full_df, duplicates_df, dup_df,
                    stores, ret, err >>

\* line 309: df[note_col] != the sentinel
\* (variant: every row selected)
DuplicatesMaskAll(t, note_col) == [i \in 1..NRows(t) |-> TRUE]
DuplicatesMask(t, note_col) ==
    [i \in 1..NRows(t) |-> t.data[i][note_col] # Str(NO_DUPLICATE)]

\* lines 305-310
DetectSplit ==
    /\ op = "detect" /\ pc = "split"
    /\ full_df' = df
    /\ duplicates_df' = <<Filter(df[1], DuplicatesMask(df[1], args.note_col))>>
    /\ pc' = "store_full"
    /\ UNCHANGED << op, args, file, df, scenario_flags, note_cache, dup_df,
                    stores, ret, err >>

\* line 313
DetectStoreFull ==
    /\ op = "detect" /\ pc = "store_full"
    /\ stores' = Append(stores, Store("output_full_path", full_df[1]))
    /\ pc' = "store_duplicates"
    /\ UNCHANGED << op, args, file, df, scenario_flags, note_cache, full_df,
                    duplicates_df, dup_df, ret, err >>

\* lines 316-318
DetectStoreDuplicates ==
    /\ op = "detect" /\ pc = "store_duplicates"
    /\ stores' = Append(stores, Store("output_duplicates_path", duplicates_df[1]))
    /\ ret' = <<full_df[1], duplicates_df[1]>>
    /\ pc' = "returned"
    /\ UNCHANGED << op, args, file, df, scenario_flags, note_cache, full_df,
                    duplicates_df, dup_df, err >>

-----------------------------------------------------------------------------
(* find_duplicate_rows *)

\* lines 76-77
FindCheckInput ==
    /\ op = "find" /\ pc = "start"
    /\ IF file = <<>>
       THEN Raise(Error("FileNotFoundError", "is_file", <<>>, <<>>))
       ELSE pc' = "load" /\ UNCHANGED err
    /\ UNCHANGED << op, args, file, df, scenario_flags, note_cache, full_df,
                    duplicates_df, dup_df, stores, ret >>

\* lines 79-86: usecols is passed to pd.read_excel as built, not filtered by the
\* header; read_excel raises ValueError for a name that the header does not have
FindLoad ==
    /\ op = "find" /\ pc = "load"
    /\ LET usecols == Usecols(args.extra_columns)
           notfound == UsecolsNotFound(file[1], usecols)
       IN IF notfound # <<>>
          THEN Raise(Error("ValueError", "read_excel", notfound, <<>>))
                  /\ UNCHANGED df
          ELSE /\ df' = <<ReadExcel(file[1], usecols)>>
               /\ pc' = "validate"
               /\ UNCHANGED err
    /\ UNCHANGED << op, args, file, scenario_flags, note_cache, full_df,
                    duplicates_df, dup_df, stores, ret >>

\* lines 88-93
FindValidate ==
    /\ op = "find" /\ pc = "validate"
    /\ LET missing_cols == MissingCols(<<name_col, link_col>>, df[1])
       IN IF missing_cols # <<>>
          THEN Raise(Error("ValueError", "missing_cols", missing_cols, df[1].cols))
          ELSE pc' = "filter" /\ UNCHANGED err
    /\ UNCHANGED << op, args, file, df, scenario_flags, note_cache, full_df,
                    duplicates_df, dup_df, stores, ret >>

\* lines 95-97
FindFilter ==
    /\ op = "find" /\ pc = "filter"
    /\ dup_df' = <<Filter(df[1], duplicated(df[1]))>>
    /\ pc' = "store"
    /\ UNCHANGED << op, args, file, df, scenario_flags, note_cache, full_df,
                    duplicates_df, stores, ret, err >>

\* line 100: whether the empty result is written
\* (variant: write_empty ignored)
WriteEmptyAlways(a) == TRUE
WriteEmpty(a) == a.write_empty

\* lines 99-104
FindStoreEmpty ==
    /\ op = "find" /\ pc = "store"
    /\ NRows(dup_df[1]) = 0
    /\ stores' = IF WriteEmpty(args)
                 THEN Append(stores, Store("output_path", dup_df[1]))
                 ELSE stores
    /\ ret' = dup_df
    /\ pc' = "returned"
    /\ UNCHANGED << op, args, file, df, scenario_flags, note_cache, full_df,
                    duplicates_df, dup_df, err >>

\* lines 106-109
FindStoreDuplicates ==
    /\ op = "find" /\ pc = "store"
    /\ NRows(dup_df[1]) # 0
    /\ stores' = Append(stores, Store("output_path", dup_df[1]))
    /\ ret' = dup_df
    /\ pc' = "returned"
    /\ UNCHANGED << op, args, file, df, scenario_flags, note_cache, full_df,
                    duplicates_df, dup_df, err >>

-----------------------------------------------------------------------------

Next ==
    \/ DetectCheckInput
    \/ DetectLoad
    \/ DetectValidate
    \/ DetectClassify
    \/ DetectNotes
    \/ DetectSplit
    \/ DetectStoreFull
    \/ DetectStoreDuplicates
    \/ FindCheckInput
    \/ FindLoad
    \/ FindValidate
    \/ FindFilter
    \/ FindStoreEmpty
    \/ FindStoreDuplicates

Spec == Init /\ [][Next]_vars

-----------------------------------------------------------------------------
(* The pairwise definition of the scenarios (docstring, lines 133-139), on    *)
(* values normalised as the data model says: missing -> empty, else trimmed.  *)

Max(S) == CHOOSE x \in S : \A y \in S : x >= y

NonSpace(t) == {k \in 1..Len(t) : t[k] # " "}

Trimmed(t) ==
    IF NonSpace(t) = {} THEN <<>> ELSE SubSeq(t, Min(NonSpace(t)), Max(NonSpace(t)))

NormalizedValue(c) == IF c.kind = "nan" THEN <<>> ELSE Trimmed(c.s)

Same(t, i, j, c) == NormalizedValue(t.data[i][c]) = NormalizedValue(t.data[j][c])

PairScenario(t, i, j, n) ==
    LET country == Same(t, i, j, country_col)
        company == Same(t, i, j, company_col)
        website == Same(t, i, j, website_col)
    IN CASE n = 1 -> country /\ company /\ website
         [] n = 2 -> country /\ company /\ ~website
         [] n = 3 -> country /\ ~company /\ website
         [] n = 4 -> ~country /\ company /\ website
         [] n = 5 -> ~country /\ company /\ ~website
         [] n = 6 -> ~country /\ ~company /\ website

\* the scenarios row i satisfies against at least one other row
PairwiseSet(t, i) ==
    {n \in 1..6 : \E j \in 1..NRows(t) : j # i /\ PairScenario(t, i, j, n)}

RECURSIVE Pow2(_)
Pow2(n) == IF n = 0 THEN 1 ELSE 2 * Pow2(n - 1)

\* the scenarios whose bit is set in a bitmask
FlagSet(flag) == {n \in 1..6 : (flag \div Pow2(n - 1)) % 2 = 1}

RECURSIVE Ascending(_)
Ascending(S) == IF S = {} THEN <<>> ELSE <<Min(S)>> \o Ascending(S \ {Min(S)})

\* the note text of a bitmask, rendered directly
RECURSIVE JoinLabels(_, _)
JoinLabels(nums, sep) ==
    IF nums = <<>> THEN <<>>
    ELSE IF Len(nums) = 1 THEN scenario_descriptions[nums[1]]
    ELSE scenario_descriptions[nums[1]] \o sep \o JoinLabels(Tail(nums), sep)

RenderedNote(flag, sep) ==
    IF flag = 0 THEN NO_DUPLICATE ELSE JoinLabels(Ascending(FlagSet(flag)), sep)

Increasing(s) == \A k \in 1..Len(s) : \A l \in 1..Len(s) : k < l => s[k] < s[l]

Detect == op = "detect"
Find == op = "find"
Classified == Detect /\ pc \in {"notes", "split", "store_full", "store_duplicates", "returned"}
Noted == Detect /\ pc \in {"split", "store_full", "store_duplicates", "returned"}
Returned == pc = "returned"
Input == file[1]
NoteOf(i) == df[1].data[i][args.note_col]

-----------------------------------------------------------------------------
(* The claims *)

\* C1: for every table and every scenario, a row's bitmask has the scenario's
\* bit exactly when some other row forms a pair with it that satisfies the
\* scenario (the group-by result equals the pairwise reference).
C1_EqualsPairwise ==
    Classified =>
        \A i \in 1..NRows(Input) : FlagSet(scenario_flags[i]) = PairwiseSet(Input, i)

\* C10: the classifier never under-reports: every scenario a row satisfies
\* against some other row has its bit set; so a row with the sentinel note
\* shares its normalised company and its normalised website with no other row.
C10_NeverUnderReports ==
    /\ Classified =>
          /\ Len(scenario_flags) = NRows(Input)
          /\ \A i \in 1..NRows(Input) :
                PairwiseSet(Input, i) \subseteq FlagSet(scenario_flags[i])
    /\ Noted =>
          \A i \in 1..NRows(Input) :
              NoteOf(i) = Str(NO_DUPLICATE) =>
                  \A j \in 1..NRows(Input) :
                      j # i => /\ ~Same(Input, i, j, company_col)
                               /\ ~Same(Input, i, j, website_col)

\* C10 witness: a row that satisfies scenario 5 against one row and scenario 6
\* against another (both have two fields that must differ) has both bits.
C10_Witness ==
    /\ Noted
    /\ \E i \in 1..NRows(Input) :
          /\ {5, 6} \subseteq PairwiseSet(Input, i)
          /\ {5, 6} \subseteq FlagSet(scenario_flags[i])

\* C2: the note of a row is a function of its bitmask and the separator: the
\* sentinel for 0, else the labels of the set bits, once each, ascending,
\* joined by the separator; the cache holds that text for every bitmask of
\* the table, so no row is left without a note.
C2_NoteOfBitmask ==
    Noted =>
        /\ DOMAIN note_cache = {0} \cup Range(scenario_flags)
        /\ \A f \in DOMAIN note_cache :
              note_cache[f] = RenderedNote(f, args.scenario_separator)
        /\ \A i \in 1..Len(scenario_flags) :
              /\ scenario_flags[i] \in 0..63
              /\ NoteOf(i) = Str(RenderedNote(scenario_flags[i], args.scenario_separator))
              /\ (scenario_flags[i] = 0) <=> (NoteOf(i) = Str(NO_DUPLICATE))

\* C2 witness: a row with two scenarios, rendered with the two-atom separator.
C2_Witness ==
    /\ Noted
    /\ args.scenario_separator = <<",", " ">>
    /\ \E i \in 1..Len(scenario_flags) :
          /\ Cardinality(FlagSet(scenario_flags[i])) >= 2
          /\ Len(NoteOf(i).s) = 4

\* C3: the full table has every input row once, in input order; the
\* duplicates-only table has exactly the rows with a non-zero bitmask (note
\* not the sentinel), in input order, with the columns of the full table.
C3_FullAndDuplicates ==
    (Detect /\ Returned) =>
        LET full == ret[1]
            dups == ret[2]
        IN /\ full.index = Input.index
           /\ NRows(full) = NRows(Input)
           /\ \A i \in 1..NRows(full) :
                 \A c \in (Range(Input.cols) \cap Range(full.cols)) \ {args.note_col} :
                     full.data[i][c] = Input.data[i][c]
           /\ dups.cols = full.cols
           /\ Increasing(dups.index)
           /\ Range(dups.index) = {i - 1 : i \in {k \in 1..NRows(full) : scenario_flags[k] # 0}}
           /\ Range(dups.index) =
                 {full.index[i] : i \in {k \in 1..NRows(full) :
                                            full.data[k][args.note_col] # Str(NO_DUPLICATE)}}
           /\ \A k \in 1..NRows(dups) : dups.data[k] = full.data[dups.index[k] + 1]
           /\ stores = << Store("output_full_path", full),
                          Store("output_duplicates_path", dups) >>

\* C3 witness: a returned call where the duplicates are rows 0 and 2 of three.
C3_Witness ==
    /\ Detect /\ Returned
    /\ NRows(ret[1]) = 3
    /\ ret[2].index = <<0, 2>>

\* C4: find_duplicate_rows returns exactly the rows whose raw (name, link)
\* pair occurs at least twice, every occurrence, in input order.
C4_RawPairDuplicates ==
    (Find /\ Returned) =>
        LET out == ret[1]
            Occurrences(i) ==
                Cardinality({j \in 1..NRows(Input) :
                                /\ Input.data[j][name_col] = Input.data[i][name_col]
                                /\ Input.data[j][link_col] = Input.data[i][link_col]})
        IN /\ Increasing(out.index)
           /\ Range(out.index) = {i - 1 : i \in {k \in 1..NRows(Input) : Occurrences(k) >= 2}}
           /\ out.cols = df[1].cols
           /\ \A k \in 1..NRows(out) :
                 /\ out.data[k] = df[1].data[out.index[k] + 1]
                 /\ \A c \in Range(out.cols) : out.data[k][c] = Input.data[out.index[k] + 1][c]

\* C4 witness: rows 0 and 2 are returned and row 1, which differs from them
\* only by a trailing blank, is not.
C4_Witness ==
    /\ Find /\ Returned
    /\ ret[1].index = <<0, 2>>
    /\ Input.data[1][name_col].kind = "str"
    /\ NormalizedValue(Input.data[2][name_col]) = NormalizedValue(Input.data[1][name_col])
    /\ NormalizedValue(Input.data[2][link_col]) = NormalizedValue(Input.data[1][link_col])

\* C5: find_duplicate_rows stores to output_path exactly when the result is
\* non-empty or write_empty is true, at most once, only after the columns
\* were validated, and returns the filtered table either way.
C5_StoreIffNonEmptyOrWriteEmpty ==
    Find =>
        /\ Len(stores) <= 1
        /\ stores # <<>> =>
              /\ Returned
              /\ df # <<>> /\ {name_col, link_col} \subseteq Range(df[1].cols)
              /\ stores[1] = Store("output_path", ret[1])
        /\ Returned =>
              /\ (stores # <<>>) <=> (NRows(ret[1]) > 0 \/ args.write_empty)
              /\ err = <<>>
              /\ ret = dup_df
              /\ Range(ret[1].index) \subseteq Range(df[1].index)

\* C5 witness: an empty result with write_empty false returns with no store.
C5_Witness ==
    /\ Find /\ Returned
    /\ ~args.write_empty
    /\ NRows(ret[1]) = 0
    /\ NRows(Input) >= 2
    /\ stores = <<>>

RequiredCols == IF Detect THEN <<country_col, company_col, website_col>>
                ELSE <<name_col, link_col>>

C7_AbsentExtraIgnored ==
    (/\ Find /\ file # <<>>
     /\ pc \notin {"start", "load"}
     /\ {name_col, link_col} \subseteq Range(Input.cols)
     /\ args.extra_columns # <<>>
     /\ ~(Range(args.extra_columns[1]) \subseteq Range(Input.cols)))
    => err = <<>>

\* C8: key equality is equality of normalised values: a missing cell is the
\* empty string and any other cell its trimmed text, so rows that are both
\* missing, or differ only in surrounding blanks, on all three key columns
\* mark each other with scenario 1.
C8_NormalizedEquality ==
    Classified =>
        \A i \in 1..NRows(Input) :
            (1 \in FlagSet(scenario_flags[i])) <=>
                \E j \in 1..NRows(Input) :
                    /\ j # i
                    /\ \A c \in DetectKeys :
                          \/ Input.data[i][c].kind = "nan" /\ Input.data[j][c].kind = "nan"
                          \/ NormalizedValue(Input.data[i][c]) = NormalizedValue(Input.data[j][c])

\* C8 witness: two rows both missing in country, whose company cells differ
\* only by surrounding blanks, are marked with scenario 1.
C8_Witness ==
    /\ Classified
    /\ \E i \in 1..NRows(Input) : \E j \in 1..NRows(Input) :
          /\ i # j
          /\ Input.data[i][country_col] = NaN /\ Input.data[j][country_col] = NaN
          /\ Input.data[i][company_col] # Input.data[j][company_col]
          /\ Input.data[i][company_col].kind = "str"
          /\ Input.data[j][company_col].kind = "str"
          /\ 1 \in FlagSet(scenario_flags[i])
          /\ 1 \in FlagSet(scenario_flags[j])

\* C9: for every table and every note_col, the full table's columns are the
\* input's columns in order followed by the appended note column, and every
\* input column keeps its values in every row.
C9_InputColumnsUntouched ==
    (Detect /\ Returned) =>
        /\ ret[1].cols = Input.cols \o <<args.note_col>>
        /\ \A i \in 1..NRows(Input) : \A c \in Range(Input.cols) :
              ret[1].data[i][c] = Input.data[i][c]

====
